---- MODULE Spec2Model ----
(***************************************************************************)
(* Model of Week_1/link-checker.py: extract_http_links and get_link_status *)
(* as a sequential state machine.  Every call of requests.get is one step  *)
(* whose outcome (an HTTP response or a raised RequestException) is chosen *)
(* by the network.  Strings the code inspects (URLs, hrefs) are sequences  *)
(* of one-character strings, so that startswith is computed, not assumed.  *)
(***************************************************************************)
EXTENDS Integers, Sequences, FiniteSets, TLC

VARIABLES urls, result, i, pc, soup, links, status_links, response, exc,
          requests, extracted, served

\* urls          the argument of extract_http_links
\* result        the dict being built, returned at line 64
\* i             how many elements of urls the for loop has taken: url is urls[i]
\* pc            where the function is: "loop" (line 37), "fetching" (line 40),
\*               "extracting" (line 41), "checking" (line 54), "failed" (line 60),
\*               "done" (returned)
\* soup, links, status_links, response   the locals of these names; as in Python
\*               they keep their value until they are assigned again
\* exc           the RequestException in flight from line 40 to its handler
\* requests      the calls of requests.get made so far, in order
\* extracted     for each seed whose links list is settled, len(links) (0 when
\*               the page fetch failed)
\* served        the anchors the network has served so far in page bodies
vars == <<urls, result, i, pc, soup, links, status_links, response, exc,
          requests, extracted, served>>

-----------------------------------------------------------------------------
(* Bounds of the model *)

MaxSeeds == 2

\* the anchors of all the pages the network serves in one run
MaxAnchors == 2

-----------------------------------------------------------------------------
(* The inputs: seed URLs, hrefs found in pages, and network outcomes *)

SeedA == <<"h","t","t","p",":","a">>

SeedB == <<"h","t","t","p","s",":","b">>

SeedURLs == {SeedA, SeedB}

HrefX == <<"h","t","t","p",":","x">>

HrefY == <<"h","t","t","p","s",":","y">>

HrefRelative == <<"/","r">>

HrefMailto == <<"m","a","i","l","t","o",":">>

HrefShort == <<"h","t","t">>

Hrefs == {HrefX, HrefY, HrefRelative, HrefMailto, HrefShort}

\* an <a> tag of a parsed page: with an href attribute or without one
Tags == [has_href : {TRUE}, href : Hrefs] \cup [has_href : {FALSE}, href : {<<>>}]

\* response.status_code of a response that requests.get returned
StatusCodes == {200, 301, 404, 503}

\* the subclasses of requests.exceptions.RequestException a request can raise
FailureKinds == {"Timeout", "ConnectionError", "DNSError", "TLSError", "Other"}

Responded(s) == [exception |-> "None", status_code |-> s]

Raised(k) == [exception |-> k, status_code |-> -1]

Outcomes == {Responded(s) : s \in StatusCodes} \cup {Raised(k) : k \in FailureKinds}

IsFailure(o) == o.exception # "None"

\* the name response before its first assignment
Unbound == [exception |-> "None", status_code |-> -1]

SeqUpTo(S, n) == UNION {[1..m -> S] : m \in 0..n}

\* the seed lists: the code compares seed URLs and never looks inside them, so a
\* list's first seed is taken to be SeedA; later seeds repeat it or differ from it
SeedLists == {s \in SeqUpTo(SeedURLs, MaxSeeds) : s = <<>> \/ s[1] = SeedA}

-----------------------------------------------------------------------------
(* Pure helpers, computed as the code computes them *)

HttpPrefix == <<"h","t","t","p">>

\* a prefix test that forgets the length: a string shorter than the prefix passes
\* when it agrees with the prefix as far as it goes
StartsWithNoLength(s, prefix) ==
    \A n \in 1..Len(prefix) : n <= Len(s) => s[n] = prefix[n]

\* str.startswith(prefix)
StartsWith(s, prefix) ==
    /\ Len(s) >= Len(prefix)
    /\ SubSeq(s, 1, Len(prefix)) = prefix

\* an extraction that keeps only the first occurrence of each href
RECURSIVE ExtractLinksDedup(_)
ExtractLinksDedup(tags) ==
    IF tags = <<>> THEN <<>>
    ELSE LET a_tag == tags[Len(tags)]
             before == ExtractLinksDedup(SubSeq(tags, 1, Len(tags) - 1))
         IN  IF /\ a_tag.has_href
                /\ StartsWith(a_tag.href, HttpPrefix)
                /\ \A k \in 1..Len(before) : before[k] # a_tag.href
             THEN Append(before, a_tag.href)
             ELSE before

\* lines 44-50: the hrefs of the <a href=...> tags, in document order, that
\* start with "http"
RECURSIVE ExtractLinks(_)
ExtractLinks(tags) ==
    IF tags = <<>> THEN <<>>
    ELSE LET a_tag == Head(tags)
             rest == ExtractLinks(Tail(tags))
         IN  IF a_tag.has_href /\ StartsWith(a_tag.href, HttpPrefix)
             THEN <<a_tag.href>> \o rest
             ELSE rest

\* a checker that, like raise_for_status, takes a 4xx or 5xx response for a failure
get_link_status_raising(link, outcome) ==
    <<link, IF IsFailure(outcome) \/ outcome.status_code >= 400
            THEN 0 ELSE outcome.status_code>>

\* lines 16-22: the tuple get_link_status returns for the outcome of its request
get_link_status(link, outcome) ==
    <<link, IF IsFailure(outcome) THEN 0 ELSE outcome.status_code>>

\* the dict is a sequence of <<key, value>> pairs in insertion order
HasKey(d, k) == \E n \in 1..Len(d) : d[n][1] = k

\* d[k] = v: a new key is appended, an existing key keeps its place
DictSet(d, k, v) ==
    IF HasKey(d, k)
    THEN [n \in 1..Len(d) |-> IF d[n][1] = k THEN <<k, v>> ELSE d[n]]
    ELSE Append(d, <<k, v>>)

\* d[k]
DictGet(d, k) == d[CHOOSE n \in 1..Len(d) : d[n][1] = k][2]

\* a call of requests.get: for which seed, for which of its links (0: the seed
\* page itself), of which URL, and whether it returned a response (ok) or raised
Request(seed, link, target, outcome) ==
    [seed |-> seed, link |-> link, url |-> target, ok |-> ~IsFailure(outcome)]

-----------------------------------------------------------------------------
(* extract_http_links(urls) *)

Init ==
    /\ urls \in SeedLists
    /\ result = <<>>
    /\ i = 0
    /\ pc = "loop"
    /\ soup = <<>>
    /\ links = <<>>
    /\ status_links = <<>>
    /\ response = Unbound
    /\ exc = "None"
    /\ requests = <<>>
    /\ extracted = <<>>
    /\ served = 0

\* line 37: the next url of the list is bound
ForLoop ==
    /\ pc = "loop"
    /\ i < Len(urls)
    /\ i' = i + 1
    /\ pc' = "fetching"
    /\ UNCHANGED <<urls, result, soup, links, status_links, response, exc, requests, extracted, served>>

\* lines 40-41: requests.get(url, timeout=10) returns a response, whose text is
\* parsed, or raises a RequestException
FetchPage ==
    /\ pc = "fetching"
    /\ \E outcome \in Outcomes :
         /\ requests' = Append(requests, Request(i, 0, urls[i], outcome))
         /\ IF IsFailure(outcome)
            THEN /\ pc' = "failed"
                 /\ exc' = outcome.exception
                 /\ UNCHANGED <<response, soup, served>>
            ELSE /\ pc' = "extracting"
                 /\ response' = outcome
                 /\ soup' \in SeqUpTo(Tags, MaxAnchors - served)
                 /\ served' = served + Len(soup')
                 /\ UNCHANGED exc
    /\ UNCHANGED <<urls, result, i, links, status_links, extracted>>

\* lines 44-53
Extract ==
    /\ pc = "extracting"
    /\ links' = ExtractLinks(soup)
    /\ status_links' = <<>>
    /\ extracted' = Append(extracted, Len(links'))
    /\ pc' = "checking"
    /\ UNCHANGED <<urls, result, i, soup, response, exc, requests, served>>

\* a link check without the try/except of get_link_status: the exception leaves
\* the loop over links and reaches the handler of line 60
CheckLinkPropagating ==
    /\ pc = "checking"
    /\ Len(status_links) < Len(links)
    /\ LET j == Len(status_links) + 1
           link == links[j]
       IN  \E outcome \in Outcomes :
             /\ requests' = Append(requests, Request(i, j, link, outcome))
             /\ IF IsFailure(outcome)
                THEN /\ pc' = "failed"
                     /\ exc' = outcome.exception
                     /\ UNCHANGED <<response, status_links>>
                ELSE /\ pc' = pc
                     /\ response' = outcome
                     /\ status_links' = Append(status_links, get_link_status(link, outcome))
                     /\ UNCHANGED exc
    /\ UNCHANGED <<urls, result, i, soup, links, extracted, served>>

\* a link check that asks a second time when the first request raised
CheckLinkRetrying ==
    /\ pc = "checking"
    /\ Len(status_links) < Len(links)
    /\ LET j == Len(status_links) + 1
           link == links[j]
       IN  \E first, outcome \in Outcomes :
             /\ IsFailure(first) \/ outcome = first
             /\ requests' =
                    IF IsFailure(first)
                    THEN requests \o <<Request(i, j, link, first), Request(i, j, link, outcome)>>
                    ELSE Append(requests, Request(i, j, link, outcome))
             /\ response' = IF IsFailure(outcome) THEN response ELSE outcome
             /\ status_links' = Append(status_links, get_link_status(link, outcome))
    /\ UNCHANGED <<urls, result, i, pc, soup, links, exc, extracted, served>>

\* lines 54-55 and 16-22: one iteration of the loop over links
CheckLink ==
    /\ pc = "checking"
    /\ Len(status_links) < Len(links)
    /\ LET j == Len(status_links) + 1
           link == links[j]
       IN  \E outcome \in Outcomes :
             /\ requests' = Append(requests, Request(i, j, link, outcome))
             /\ response' = IF IsFailure(outcome) THEN response ELSE outcome
             /\ status_links' = Append(status_links, get_link_status(link, outcome))
    /\ UNCHANGED <<urls, result, i, pc, soup, links, exc, extracted, served>>

\* line 58
Store ==
    /\ pc = "checking"
    /\ Len(status_links) = Len(links)
    /\ result' = DictSet(result, urls[i], status_links)
    /\ pc' = "loop"
    /\ UNCHANGED <<urls, i, soup, links, status_links, response, exc, requests, extracted, served>>

\* a handler that falls through to the loop over links, which then checks the
\* links left over from an earlier page
ExceptFallingThrough ==
    /\ pc = "failed"
    /\ status_links' = <<>>
    /\ extracted' = Append(extracted, Len(links))
    /\ exc' = "None"
    /\ pc' = "checking"
    /\ UNCHANGED <<urls, result, i, soup, links, response, requests, served>>

\* lines 60-62
Except ==
    /\ pc = "failed"
    /\ result' = DictSet(result, urls[i], <<>>)
    /\ extracted' = Append(extracted, 0)
    /\ exc' = "None"
    /\ pc' = "loop"
    /\ UNCHANGED <<urls, i, soup, links, status_links, response, requests, served>>

\* line 64
Return ==
    /\ pc = "loop"
    /\ i = Len(urls)
    /\ pc' = "done"
    /\ UNCHANGED <<urls, result, i, soup, links, status_links, response, exc, requests, extracted, served>>

Next ==
    \/ ForLoop
    \/ FetchPage
    \/ Extract
    \/ CheckLink
    \/ Store
    \/ Except
    \/ Return

Spec == Init /\ [][Next]_vars

\* the interpreter keeps executing the function: each step that can be taken is taken
FairSpec == Spec /\ WF_vars(Next)

-----------------------------------------------------------------------------
(* Vocabulary of the properties *)

\* the prefix test, spelled out character by character
IsHttpHref(h) ==
    /\ Len(h) >= 4
    /\ h[1] = "h" /\ h[2] = "t" /\ h[3] = "t" /\ h[4] = "p"

\* the positions of a page's anchors that have an href beginning with "http"
HttpPositions(tags) ==
    {n \in 1..Len(tags) : tags[n].has_href /\ IsHttpHref(tags[n].href)}

\* position n is the Rank(tags, n)-th of them
Rank(tags, n) == Cardinality({m \in HttpPositions(tags) : m <= n})

\* the seeds whose iteration has ended: their entry has been written
Processed == {k \in 1..i : k < i \/ pc \in {"loop", "done"}}

\* the requests issued for seed k's page (link = 0) and for its links (link > 0)
PageRequests(k) == {n \in 1..Len(requests) : requests[n].seed = k /\ requests[n].link = 0}

LinkRequests(k) == {n \in 1..Len(requests) : requests[n].seed = k /\ requests[n].link > 0}

\* seed k's page was requested and the request returned a response
SeedFetched(k) == \E n \in PageRequests(k) : requests[n].ok

\* seed k's page was requested and the request raised
SeedFailed(k) == \E n \in PageRequests(k) : ~requests[n].ok

\* the current seed's iteration has just ended with its page fetched: soup, links
\* and status_links are those of seed i, whose entry is the one just written
JustStored == pc \in {"loop", "done"} /\ i > 0 /\ SeedFetched(i)

RECURSIVE Sum(_)
Sum(seq) == IF seq = <<>> THEN 0 ELSE Head(seq) + Sum(Tail(seq))

-----------------------------------------------------------------------------
(* C1: when extract_http_links returns, result holds one entry per seed of   *)
(* the input list, in input order, also when a seed occurs more than once.   *)
(* The dict keeps one entry per distinct URL, so this fails on <<A, A>>.     *)
C1_OneEntryPerSeed ==
    pc = "done" =>
        /\ Len(result) = Len(urls)
        /\ \A k \in 1..Len(result) : result[k][1] = urls[k]

(* C2: the entry of a seed whose fetch failed is an empty link list that     *)
(* differs from the entry of a seed that was fetched and had no http links,  *)
(* and the seeds after it are still processed.  The code writes [] for both. *)
C2_FailedSeedDistinguishable ==
    /\ \A p \in Processed : SeedFailed(p) /\ (\A q \in Processed : q > p => urls[q] # urls[p])
           => DictGet(result, urls[p]) = <<>>
    /\ \A p, q \in Processed :
           (urls[p] # urls[q] /\ SeedFailed(p) /\ SeedFetched(q))
               => DictGet(result, urls[p]) # DictGet(result, urls[q])
    /\ pc = "done" => \A k \in 1..Len(urls) : PageRequests(k) # {}

(* C3: a link whose check failed is recorded with an outcome that is no HTTP *)
(* status and is not the integer 0.  get_link_status records 0.              *)
C3_FailureNotZero ==
    pc = "checking" =>
        \A n \in LinkRequests(i) :
            ~requests[n].ok =>
                /\ status_links[requests[n].link][2] \notin 100..599
                /\ status_links[requests[n].link][2] # 0

(* C4: when the entry of a fetched seed is written, its links are exactly    *)
(* the hrefs of the page's anchors that begin with "http", in document       *)
(* order: the k-th entry names the k-th such anchor, repeated hrefs are kept *)
(* and nothing is reordered, whatever the outcomes of the link checks; while *)
(* the links are being checked, the entries so far are such a prefix.        *)
C4_LinksInDocumentOrder ==
    /\ JustStored =>
         LET entry == DictGet(result, urls[i])
         IN  /\ Len(entry) = Cardinality(HttpPositions(soup))
             /\ \A n \in HttpPositions(soup) : entry[Rank(soup, n)][1] = soup[n].href
    /\ pc = "checking" =>
         /\ Len(status_links) <= Cardinality(HttpPositions(soup))
         /\ \A n \in HttpPositions(soup) :
                Rank(soup, n) <= Len(status_links)
                    => status_links[Rank(soup, n)][1] = soup[n].href

\* a page with the same href twice, the first check failed, the second not
C4_Witness ==
    /\ JustStored
    /\ soup = <<[has_href |-> TRUE, href |-> HrefX], [has_href |-> TRUE, href |-> HrefX]>>
    /\ DictGet(result, urls[i]) = <<<<HrefX, 0>>, <<HrefX, 200>>>>

(* C5: an anchor's href is kept if and only if it begins with "http"; the    *)
(* others are dropped, no request is issued for them, and a fetched page     *)
(* whose anchors are all dropped gets an empty link list, not the failure    *)
(* path.                                                                     *)
C5_HttpFilter ==
    /\ (pc = "checking" \/ JustStored) =>
         /\ \A n \in 1..Len(soup) :
                soup[n].has_href =>
                    ((\E k \in 1..Len(links) : links[k] = soup[n].href)
                        <=> IsHttpHref(soup[n].href))
         /\ \A k \in 1..Len(links) :
                \E n \in 1..Len(soup) : soup[n].has_href /\ soup[n].href = links[k]
         /\ HttpPositions(soup) = {} => links = <<>>
    /\ \A n \in 1..Len(requests) : requests[n].link > 0 => IsHttpHref(requests[n].url)
    /\ (JustStored /\ HttpPositions(soup) = {}) =>
         /\ DictGet(result, urls[i]) = <<>>
         /\ LinkRequests(i) = {}

\* a fetched page with a relative and a mailto anchor only: stored as []
C5_Witness ==
    /\ JustStored
    /\ soup = <<[has_href |-> TRUE, href |-> HrefRelative],
                [has_href |-> TRUE, href |-> HrefMailto]>>
    /\ DictGet(result, urls[i]) = <<>>

(* C6: a failed link check, of whatever kind, is recorded in that link's own *)
(* entry and goes no further: the loop over the page's links goes on, all n  *)
(* extracted links are checked and recorded whichever of them fail, the seed *)
(* never takes the failure path because of a link, and the run goes on to    *)
(* request every remaining seed.                                             *)
C6_LinkFailureContained ==
    /\ pc = "checking" =>
         /\ {requests[n].link : n \in LinkRequests(i)} = 1..Len(status_links)
         /\ \A n \in LinkRequests(i) :
                ~requests[n].ok => status_links[requests[n].link] = <<links[requests[n].link], 0>>
    /\ pc = "failed" => LinkRequests(i) = {}
    /\ \A k \in Processed : LinkRequests(k) # {} => SeedFetched(k)
    /\ JustStored =>
         /\ {requests[n].link : n \in LinkRequests(i)} = 1..Cardinality(HttpPositions(soup))
         /\ Len(DictGet(result, urls[i])) = Cardinality(HttpPositions(soup))
         /\ \A n \in LinkRequests(i) :
                ~requests[n].ok => DictGet(result, urls[i])[requests[n].link][2] = 0
    /\ pc = "done" => \A k \in 1..Len(urls) : PageRequests(k) # {}

\* the first of two links failed, the second was checked all the same, and the
\* seed after it was processed
C6_Witness ==
    /\ pc = "done"
    /\ Len(urls) = 2
    /\ urls[1] # urls[2]
    /\ DictGet(result, urls[1]) = <<<<HrefX, 0>>, <<HrefY, 200>>>>
    /\ HasKey(result, urls[2])
    /\ \E n \in LinkRequests(1) : ~requests[n].ok

(* C8: every seed occurrence is requested exactly once and every extracted   *)
(* link occurrence exactly once, whether the request succeeds or fails: no   *)
(* request is repeated and no extracted link is skipped, and at the end the  *)
(* number of requests is the number of seeds plus the number of links        *)
(* extracted from the fetched pages.                                         *)
C8_OneRequestEach ==
    /\ \A m, n \in 1..Len(requests) :
           (requests[m].seed = requests[n].seed /\ requests[m].link = requests[n].link)
               => m = n
    /\ \A k \in 1..i : (k < i \/ pc # "fetching") => Cardinality(PageRequests(k)) = 1
    /\ \A k \in Processed :
           /\ k <= Len(extracted)
           /\ {requests[n].link : n \in LinkRequests(k)} = 1..extracted[k]
           /\ SeedFailed(k) => extracted[k] = 0
    /\ (pc = "checking" \/ JustStored) => extracted[i] = Cardinality(HttpPositions(soup))
    /\ pc = "checking" =>
           \A n \in LinkRequests(i) : requests[n].url = links[requests[n].link]
    /\ pc = "done" =>
           /\ Len(extracted) = Len(urls)
           /\ Len(requests) = Len(urls) + Sum(extracted)

\* the same seed twice, each time fetched, two links in all, one check failed
C8_Witness ==
    /\ pc = "done"
    /\ urls = <<SeedA, SeedA>>
    /\ extracted = <<1, 1>>
    /\ Len(requests) = 4
    /\ \E n \in LinkRequests(1) : ~requests[n].ok

(* C10: a response with any status code is no failure: a link whose request  *)
(* returns status s is recorded with exactly s, a seed page returned with    *)
(* any status is extracted and its links are checked, and only a request     *)
(* that raised leads to the failure path or to a recorded 0.                 *)
C10_StatusUninterpreted ==
    /\ (pc = "checking" /\ status_links # <<>>) =>
         LET last == status_links[Len(status_links)]
             answered == requests[Len(requests)].ok
         IN  /\ answered => last = <<links[Len(status_links)], response.status_code>>
             /\ last[2] \notin StatusCodes => ~answered
    /\ pc = "extracting" =>
         /\ requests[Len(requests)].ok
         /\ response.status_code \in StatusCodes
    /\ pc = "failed" => exc \in FailureKinds /\ ~SeedFetched(i)
    /\ \A k \in Processed :
           SeedFetched(k) => {requests[n].link : n \in LinkRequests(k)} = 1..extracted[k]
    /\ JustStored => Len(DictGet(result, urls[i])) = Cardinality(HttpPositions(soup))

\* a link that answered 503 is recorded with 503
C10_Witness ==
    /\ pc = "checking"
    /\ requests[Len(requests)].ok
    /\ response = Responded(503)
    /\ status_links = <<<<HrefX, 404>>, <<HrefY, 503>>>>

\* the state of seed k in the per-seed state machine, from the loop index and
\* the position in the function
SeedStateOf(k, index, at) ==
    IF k > index THEN "Pending"
    ELSE IF k < index THEN "Done"
    ELSE CASE at = "fetching" -> "FetchingPage"
           [] at = "extracting" -> "Extracting"
           [] at = "checking" -> "CheckingLinks"
           [] at = "failed" -> "FailedPage"
           [] OTHER -> "Done"

SeedSteps ==
    { <<"Pending", "FetchingPage">>,
      <<"FetchingPage", "Extracting">>,
      <<"FetchingPage", "FailedPage">>,
      <<"Extracting", "CheckingLinks">>,
      <<"CheckingLinks", "Done">>,
      <<"FailedPage", "Done">> }

SeedStepOK ==
    \A k \in 1..Len(urls) :
        \/ SeedStateOf(k, i', pc') = SeedStateOf(k, i, pc)
        \/ <<SeedStateOf(k, i, pc), SeedStateOf(k, i', pc')>> \in SeedSteps

LinkRequestOK ==
    (Len(requests') > Len(requests) /\ requests'[Len(requests')].link > 0) =>
        LET k == requests'[Len(requests')].seed
        IN  /\ SeedStateOf(k, i, pc) = "CheckingLinks"
            /\ Len(extracted) = k
            /\ SeedFetched(k)

AllSeedsDone == \A k \in 1..Len(urls) : SeedStateOf(k, i, pc) = "Done"

(* C9: each seed goes FetchingPage -> Extracting -> CheckingLinks -> Done or *)
(* FetchingPage -> FailedPage -> Done and by no other path; a link request   *)
(* is issued only for a seed that is in CheckingLinks, that is after its     *)
(* page has been extracted, never for a seed whose page fetch failed; and    *)
(* every seed of the list eventually reaches Done and stays there.           *)
C9_SeedStateMachine ==
    /\ [][SeedStepOK /\ LinkRequestOK]_vars
    /\ [](\A n \in 1..Len(requests) :
              requests[n].link > 0 => ~SeedFailed(requests[n].seed))
    /\ <>[]AllSeedsDone

\* both paths taken: the first seed failed, the second was fetched and its link checked
C9_Witness ==
    /\ pc = "done"
    /\ Len(urls) = 2
    /\ SeedFailed(1)
    /\ SeedFetched(2)
    /\ LinkRequests(1) = {}
    /\ Cardinality(LinkRequests(2)) = 2
    /\ AllSeedsDone

====
